---------------------------- MODULE Spec2Model ----------------------------
(***************************************************************************)
(* Model of the Canvas enrollment reporter (src/functions.py, src/main.py). *)
(*                                                                         *)
(* The program is modelled component by component; each component has its  *)
(* own variables and its own specification:                                *)
(*   SpecFetch      fetch_canvas_api against a finite chain of pages       *)
(*   SpecParse      parse_course_ids on a bounded input text               *)
(*   SpecEnr        the per-enrollment loops of summarize_course,          *)
(*                  get_detailed_student_info, build_enrollments_detail_df *)
(*   SpecBatch      process_courses / process_detailed_courses on a pool   *)
(*   SpecUI         the Streamlit script: run button, re-render, export    *)
(*   SpecExport     build_enrollments_detail_df with its two caches        *)
(* Text is a sequence of one-character strings, so that splitting,         *)
(* stripping and integer parsing are computed and not assumed.             *)
(***************************************************************************)
EXTENDS Integers, Sequences, FiniteSets, TLC

VARIABLES
    \* ---- fetch_canvas_api ----
    pages,          \* the server's chain of responses; page k links to k+1
    fpc,            \* position in fetch_canvas_api
    response,       \* index of the response held in `response` (0: none yet)
    results,        \* the local list `results`
    ret,            \* what the call returned (or that it raised)
    \* ---- parse_course_ids ----
    raw_text,       \* the text area's content
    parsed_ids,     \* the returned list of tokens
    ppc,            \* "input" before the call, "parsed" after it
    \* ---- the per-enrollment loops ----
    efn,            \* the function whose loop runs
    epc,            \* "loop" while it iterates, "done" after its return
    turn,           \* number of enrollments read so far
    counts,         \* summarize_course: the three counters and other_roles_counter
    buckets,        \* get_detailed_student_info: the four lists
    rows,           \* build_enrollments_detail_df: the list `rows`
    eret,           \* the value returned
    excluded_seen,  \* observation: enrollments read that the claims call excluded
    expected,       \* observation: enrollments read, per class of the claims
    \* ---- one batch run on the thread pool ----
    bfn,            \* process_courses or process_detailed_courses
    batch_ids,      \* the argument course_ids
    max_workers,    \* the argument max_workers
    tasks,          \* per submitted task: status, the course lookup's answer, future
    taken,          \* the futures as_completed has yielded
    brows,          \* the local list rows / detailed_results, in completion order
    bpc,            \* "collect", "unwinding" (exception leaving), "returned", "raised"
    bret,           \* the returned list
    \* ---- build_enrollments_detail_df ----
    export_ids,     \* the argument course_ids
    xi,             \* number of course ids the loop has done
    xlocals,        \* rows and the two caches (with the requests made)
    xpc,            \* "ready", "loop", "returned", "raised"
    xret,           \* the returned frame
    call_no,        \* number of calls made so far
    \* ---- the Streamlit script ----
    session,        \* st.session_state: detailed_results, df_resumen, course_ids
    show_details,   \* the checkbox
    screen,         \* what the last script run rendered
    exported,       \* the workbook the last export produced
    run_no,         \* number of runs of the "Buscar" handler that reached the batches
    last_run        \* observation: the last such run and whether it failed

fetchVars == <<pages, fpc, response, results, ret>>
parseVars == <<raw_text, parsed_ids, ppc>>
enrVars == <<efn, epc, turn, counts, buckets, rows, eret, excluded_seen, expected>>
batchVars == <<bfn, batch_ids, max_workers, tasks, taken, brows, bpc, bret>>
exportVars == <<export_ids, xi, xlocals, xpc, xret, call_no>>
uiVars == <<session, show_details, screen, exported, run_no, last_run>>
vars == <<fetchVars, parseVars, enrVars, batchVars, exportVars, uiVars>>

otherThanFetch == <<parseVars, enrVars, batchVars, exportVars, uiVars>>
otherThanParse == <<fetchVars, enrVars, batchVars, exportVars, uiVars>>
otherThanEnr == <<fetchVars, parseVars, batchVars, exportVars, uiVars>>
otherThanBatch == <<fetchVars, parseVars, enrVars, exportVars, uiVars>>
otherThanUi == <<fetchVars, parseVars, enrVars, batchVars, exportVars>>
otherThanExport == <<fetchVars, parseVars, enrVars, batchVars, uiVars>>

(***************************************************************************)
(* Bounds of the model.                                                    *)
(***************************************************************************)
MaxPages == 3
MaxItems == 2
MaxLen == 3
MaxEnr == 2
MaxIds == 2
MaxWorkers == 2
MaxExportIds == 3
MaxCalls == 2
MaxRuns == 2

(***************************************************************************)
(* Generic helpers.                                                        *)
(***************************************************************************)
SeqsUpTo(S, n) == UNION {[1..k -> S] : k \in 0..n}

Range(s) == {s[k] : k \in DOMAIN s}

RECURSIVE SumSeq(_)
SumSeq(s) == IF s = <<>> THEN 0 ELSE Head(s) + SumSeq(Tail(s))

(***************************************************************************)
(* fetch_canvas_api (src/functions.py:19-39).                              *)
(*                                                                         *)
(* A response has a status and, when 200, a decoded JSON body: an array    *)
(* (kind "list", elems its items) or an object (kind "dict", elems its     *)
(* keys, which is what list.extend would append).  Every page but the last *)
(* carries a "next" link to the following page, so the chain is finite.    *)
(***************************************************************************)
Items == {"a", "b"}

ListBodies == {[kind |-> "list", elems |-> e] : e \in SeqsUpTo(Items, MaxItems)}

DictBody == [kind |-> "dict", elems |-> <<"id">>]

NoBody == [kind |-> "dict", elems |-> <<>>]

Page ==
    {[status |-> 200, body |-> b] : b \in ListBodies \cup {DictBody}}
    \cup {[status |-> 404, body |-> NoBody], [status |-> 500, body |-> NoBody]}

Chains == UNION {[1..k -> Page] : k \in 1..MaxPages}

\* response.links.get("next") of the response at position k
HasNext(k) == k < Len(pages)

\* return values: None, a list, a non-list JSON value; "raised" for HTTPError
NotFound == [kind |-> "none", elems |-> <<>>]
Raised == [kind |-> "raised", elems |-> <<>>]
Pending == [kind |-> "pending", elems |-> <<>>]

FetchIdle ==
    /\ pages = <<>>
    /\ fpc = "idle"
    /\ response = 0
    /\ results = <<>>
    /\ ret = Pending

FetchInit ==
    /\ pages \in Chains
    /\ fpc = "first"
    /\ response = 0
    /\ results = <<>>
    /\ ret = Pending

\* results.extend(x)
ExtendFront(res, body) == body.elems \o res
Extend(res, body) == res \o body.elems

\* the status test of the first request: 404 is "not found"
IsNotFound(status) == status = 404

\* response.raise_for_status()
RaisesForStatus(status) == status >= 400

\* lines 23-32: the first GET, the 404 test, raise_for_status, the body test
FetchFirst ==
    /\ fpc = "first"
    /\ response' = 1
    /\ LET r == pages[1] IN
        IF IsNotFound(r.status)
        THEN /\ fpc' = "done"
             /\ ret' = NotFound
             /\ results' = results
        ELSE IF RaisesForStatus(r.status)
        THEN /\ fpc' = "raised"
             /\ ret' = Raised
             /\ results' = results
        ELSE IF r.body.kind # "list"
        THEN /\ fpc' = "done"
             /\ ret' = r.body
             /\ results' = results
        ELSE /\ fpc' = "loop"
             /\ ret' = ret
             /\ results' = Extend(results, r.body)
    /\ UNCHANGED <<pages, otherThanFetch>>

\* lines 33-37: one turn of the while loop
FetchNext ==
    /\ fpc = "loop"
    /\ HasNext(response)
    /\ response' = response + 1
    /\ LET r == pages[response + 1] IN
        IF RaisesForStatus(r.status)
        THEN /\ fpc' = "raised"
             /\ ret' = Raised
             /\ results' = results
        ELSE /\ fpc' = "loop"
             /\ ret' = ret
             /\ results' = Extend(results, r.body)
    /\ UNCHANGED <<pages, otherThanFetch>>

\* line 39: the loop ends when the response has no next link
FetchReturn ==
    /\ fpc = "loop"
    /\ ~HasNext(response)
    /\ fpc' = "done"
    /\ ret' = [kind |-> "list", elems |-> results]
    /\ UNCHANGED <<pages, response, results, otherThanFetch>>

(***************************************************************************)
(* parse_course_ids (src/functions.py:11-17).                              *)
(*                                                                         *)
(* The alphabet: two ASCII digits, a letter, the comma, a whitespace       *)
(* character (space, tab and newline behave alike), and "sup2", which      *)
(* stands for the single character U+00B2 SUPERSCRIPT TWO: str.isdigit()   *)
(* is True for it, it is outside [0-9], and int() rejects it.              *)
(***************************************************************************)
AsciiDigits == {"1", "2"}

Chars == AsciiDigits \cup {"a", ",", " ", "sup2"}

Texts == SeqsUpTo(Chars, MaxLen)

\* \s of the regular expression, and what str.strip() removes
IsSpace(c) == c = " "

\* the class [,\s] of the split pattern
IsDelim(c) == c = "," \/ IsSpace(c)

RECURSIVE LStrip(_)
LStrip(s) == IF s # <<>> /\ IsSpace(Head(s)) THEN LStrip(Tail(s)) ELSE s

RECURSIVE RStrip(_)
RStrip(s) ==
    IF s # <<>> /\ IsSpace(s[Len(s)]) THEN RStrip(SubSeq(s, 1, Len(s) - 1)) ELSE s

\* raw_text.strip()
Strip(s) == RStrip(LStrip(s))

\* re.split(r"[,\s]+", s): the pieces between maximal runs of delimiters; a
\* leading or trailing run leaves an empty piece
RECURSIVE SplitAcc(_, _, _)
SplitAcc(s, cur, inDelim) ==
    IF s = <<>> THEN <<cur>>
    ELSE IF IsDelim(Head(s))
    THEN IF inDelim
         THEN SplitAcc(Tail(s), cur, TRUE)
         ELSE <<cur>> \o SplitAcc(Tail(s), <<>>, TRUE)
    ELSE SplitAcc(Tail(s), Append(cur, Head(s)), FALSE)

ReSplit(s) == SplitAcc(s, <<>>, FALSE)

\* str.isdigit(): non-empty and every character has the Unicode digit property
IsDigit(tok) == tok # <<>> /\ \A k \in DOMAIN tok : tok[k] \in AsciiDigits \cup {"sup2"}

RECURSIVE SelectTokens(_)
SelectTokens(toks) ==
    IF toks = <<>> THEN <<>>
    ELSE IF IsDigit(Head(toks))
    THEN <<Head(toks)>> \o SelectTokens(Tail(toks))
    ELSE SelectTokens(Tail(toks))

parse_course_ids(text) ==
    IF text = <<>> THEN <<>> ELSE SelectTokens(ReSplit(Strip(text)))

\* int(tok) succeeds exactly on non-empty runs of decimal digits
IntParses(tok) == tok # <<>> /\ \A k \in DOMAIN tok : tok[k] \in AsciiDigits

DigitValue(c) == IF c = "1" THEN 1 ELSE 2

\* int(tok), for a token that parses
RECURSIVE IntOf(_)
IntOf(tok) ==
    IF tok = <<>> THEN 0
    ELSE 10 * IntOf(SubSeq(tok, 1, Len(tok) - 1)) + DigitValue(tok[Len(tok)])

ParseIdle ==
    /\ raw_text = <<>>
    /\ parsed_ids = <<>>
    /\ ppc = "idle"

ParseInit ==
    /\ raw_text \in Texts
    /\ parsed_ids = <<>>
    /\ ppc = "input"

\* the call parse_course_ids(ids_input) of the run button (src/main.py:285)
ParseCourseIds ==
    /\ ppc = "input"
    /\ parsed_ids' = parse_course_ids(raw_text)
    /\ ppc' = "parsed"
    /\ UNCHANGED <<raw_text, otherThanParse>>

(***************************************************************************)
(* Enrollment records, and the per-enrollment loops of summarize_course    *)
(* (src/main.py:57-93), get_detailed_student_info (src/main.py:219-263)    *)
(* and build_enrollments_detail_df (src/main.py:125-164).                  *)
(*                                                                         *)
(* An enrollment is the JSON object of the enrollments endpoint.  "None"   *)
(* stands for a key that is absent or null; has_user says whether the      *)
(* object embeds a user with a name.  The loops read the enrollments one   *)
(* per turn; the list is the server's answer, so each turn draws the next  *)
(* enrollment, and the loop may end after any turn.                        *)
(***************************************************************************)
NoneStr == "None"

EnrTypes == {"StudentEnrollment", "TeacherEnrollment", "StudentViewEnrollment", NoneStr}

EnrStates == {"active", "completed", "invited"}

EnrRoles == {NoneStr, "Mentor"}

UserNames == {"Test Student", "TEST STUDENT", "Test Student ", "Ana"}

Enrollment ==
    [type : EnrTypes, enrollment_state : EnrStates, role : EnrRoles,
     has_user : {TRUE}, user_name : UserNames]
    \cup [type : EnrTypes, enrollment_state : EnrStates, role : EnrRoles,
          has_user : {FALSE}, user_name : {""}]

\* str.lower() on the names that occur
LowerKeepCase(n) == n
Lower(n) ==
    CASE n = "Test Student" -> "test student"
      [] n = "TEST STUDENT" -> "test student"
      [] n = "Test Student " -> "test student "
      [] n = "Ana" -> "ana"
      [] n = "Sin nombre" -> "sin nombre"
      [] OTHER -> n

\* str.strip() on the names that occur
StripName(n) == IF n = "Test Student " THEN "Test Student" ELSE n

\* enr.get("role") or enr_type or "Otro"  (main.py:65, 227)
RoleName(e) ==
    IF e.role # NoneStr THEN e.role
    ELSE IF e.type # NoneStr THEN e.type
    ELSE "Otro"

\* enr.get("user", {}).get("name", "Sin nombre")  (main.py:66-67, 228-229)
UserNameOrDefault(e) == IF e.has_user THEN e.user_name ELSE "Sin nombre"

\* the exclusion test of summarize_course (main.py:70)
SummarizeExcluded(e) ==
    \/ Lower(UserNameOrDefault(e)) = "test student"
    \/ e.type = "StudentViewEnrollment"

\* the keys other_roles_counter can hold, in ascending string order
RoleKeys == <<"Mentor", "Otro", "TeacherEnrollment">>

NoCounts ==
    [active_students |-> 0, completed_students |-> 0, other_states_students |-> 0,
     other_roles_counter |-> [k \in Range(RoleKeys) |-> 0]]

\* one turn of the loop of summarize_course on counters c (main.py:62-81)
SummarizeTurnMergeStates(c, e) ==
    IF SummarizeExcluded(e) THEN c
    ELSE IF e.type = "StudentEnrollment"
    THEN IF e.enrollment_state = "active"
         THEN [c EXCEPT !.active_students = @ + 1]
         ELSE [c EXCEPT !.other_states_students = @ + 1]
    ELSE [c EXCEPT !.other_roles_counter[RoleName(e)] = @ + 1]
SummarizeTurn(c, e) ==
    IF SummarizeExcluded(e) THEN c
    ELSE IF e.type = "StudentEnrollment"
    THEN IF e.enrollment_state = "active"
         THEN [c EXCEPT !.active_students = @ + 1]
         ELSE IF e.enrollment_state = "completed"
         THEN [c EXCEPT !.completed_students = @ + 1]
         ELSE [c EXCEPT !.other_states_students = @ + 1]
    ELSE [c EXCEPT !.other_roles_counter[RoleName(e)] = @ + 1]

\* " · ".join(f"{k}: {v}" for k, v in sorted(other_roles_counter.items())):
\* the pairs of the keys present, in ascending key order; "" is <<>>
RECURSIVE JoinRoles(_, _)
JoinRoles(counter, keys) ==
    IF keys = <<>> THEN <<>>
    ELSE (IF counter[Head(keys)] > 0
          THEN <<[k |-> Head(keys), v |-> counter[Head(keys)]]>>
          ELSE <<>>) \o JoinRoles(counter, Tail(keys))

\* the row returned at main.py:85-93
SummaryRow(cid, course_name, account_name, c) ==
    [id |-> IntOf(cid), Curso |-> course_name, Diplomado |-> account_name,
     Activos |-> c.active_students, Completados |-> c.completed_students,
     OtrosEstados |-> c.other_states_students,
     OtrosRoles |-> JoinRoles(c.other_roles_counter, RoleKeys)]

\* the row returned when the course is not found (main.py:37-45)
NotFoundRowDefaultName(cid) ==
    [id |-> IntOf(cid), Curso |-> "Curso", Diplomado |-> "",
     Activos |-> 0, Completados |-> 0, OtrosEstados |-> 0, OtrosRoles |-> <<>>]
NotFoundRow(cid) ==
    [id |-> IntOf(cid), Curso |-> "NO ENCONTRADO", Diplomado |-> "",
     Activos |-> 0, Completados |-> 0, OtrosEstados |-> 0, OtrosRoles |-> <<>>]

\* ---- get_detailed_student_info ----
\* the exclusion test of get_detailed_student_info (main.py:234)
DetailExcluded(e) ==
    \/ Lower(StripName(UserNameOrDefault(e))) = "test student"
    \/ e.type = "StudentViewEnrollment"

\* student_info (main.py:237-243); login_id, email and id of the user are not
\* varied: a user that is present has them, an absent one gets the defaults.
\* src is the enrollment the record was built from (not a field of the code's
\* record; it lets a property speak about the origin of a bucket entry).
StudentInfo(e) ==
    [Nombre |-> UserNameOrDefault(e),
     Email |-> IF e.has_user THEN "login" ELSE "Sin email",
     UserID |-> IF e.has_user THEN "id" ELSE "Sin ID",
     Estado |-> e.enrollment_state,
     Rol |-> RoleName(e),
     src |-> e]

NoBuckets ==
    [active_students |-> <<>>, completed_students |-> <<>>,
     other_states_students |-> <<>>, other_roles |-> <<>>]

\* one turn of the loop of get_detailed_student_info on buckets b (main.py:224-253)
DetailTurn(b, e) ==
    IF DetailExcluded(e) THEN b
    ELSE IF e.type = "StudentEnrollment"
    THEN IF e.enrollment_state = "active"
         THEN [b EXCEPT !.active_students = Append(@, StudentInfo(e))]
         ELSE IF e.enrollment_state = "completed"
         THEN [b EXCEPT !.completed_students = Append(@, StudentInfo(e))]
         ELSE [b EXCEPT !.other_states_students = Append(@, StudentInfo(e))]
    ELSE [b EXCEPT !.other_roles = Append(@, StudentInfo(e))]

\* the dict returned at main.py:255-263
DetailRow(cid, course_name, account_name, b) ==
    [id |-> IntOf(cid), Curso |-> course_name, Diplomado |-> account_name,
     Activos |-> b.active_students, Completados |-> b.completed_students,
     OtrosEstados |-> b.other_states_students, OtrosRoles |-> b.other_roles]

\* the dict returned when the course is not found (main.py:199-207)
NotFoundDetail(cid) ==
    [id |-> IntOf(cid), Curso |-> "NO ENCONTRADO", Diplomado |-> "",
     Activos |-> <<>>, Completados |-> <<>>, OtrosEstados |-> <<>>,
     OtrosRoles |-> <<>>]

\* ---- build_enrollments_detail_df ----
\* uname = (u.get("name") or "").strip()  (main.py:130-131)
DfUserName(e) == IF e.has_user THEN StripName(e.user_name) ELSE ""

\* the exclusion test of build_enrollments_detail_df (main.py:133)
DfExcluded(e) ==
    \/ e.type = "StudentViewEnrollment"
    \/ Lower(DfUserName(e)) = "test student"

\* the row appended at main.py:136-152; user_id, login_id, sis_user_id,
\* seccion_id, enrollment_id and the three dates are copied from fields that
\* are not varied here.  src as in StudentInfo.
DfRow(cid, curso_name, diplomado_name, e) ==
    [id_curso |-> IntOf(cid), Curso |-> curso_name, Diplomado |-> diplomado_name,
     nombre |-> DfUserName(e), tipo_matricula |-> e.type,
     rol |-> IF e.role # NoneStr THEN e.role ELSE e.type,
     estado |-> e.enrollment_state, src |-> e]

\* one turn of the inner loop (main.py:125-152)
DfTurn(rs, cid, curso_name, diplomado_name, e) ==
    IF DfExcluded(e) THEN rs ELSE Append(rs, DfRow(cid, curso_name, diplomado_name, e))

\* the order of the values of a sort column; None sorts last
TypeRank(t) ==
    CASE t = "StudentEnrollment" -> 1
      [] t = "StudentViewEnrollment" -> 2
      [] t = "TeacherEnrollment" -> 3
      [] OTHER -> 4

StateRank(s) ==
    CASE s = "active" -> 1
      [] s = "completed" -> 2
      [] OTHER -> 3

NameRank(n) ==
    CASE n = "" -> 1
      [] n = "Ana" -> 2
      [] n = "TEST STUDENT" -> 3
      [] OTHER -> 4

\* the sort key ["id_curso","tipo_matricula","estado","nombre"] (main.py:162)
DfKey(r) ==
    <<r.id_curso, TypeRank(r.tipo_matricula), StateRank(r.estado), NameRank(r.nombre)>>

RECURSIVE LexLess(_, _)
LexLess(a, b) ==
    IF a = <<>> THEN FALSE
    ELSE IF Head(a) # Head(b) THEN Head(a) < Head(b)
    ELSE LexLess(Tail(a), Tail(b))

\* insert r after the entries whose key is not greater (a stable sort)
RECURSIVE DfInsert(_, _)
DfInsert(sorted, r) ==
    IF sorted = <<>> THEN <<r>>
    ELSE IF LexLess(DfKey(r), DfKey(Head(sorted)))
    THEN <<r>> \o sorted
    ELSE <<Head(sorted)>> \o DfInsert(Tail(sorted), r)

\* df_detail.sort_values([...]) and reset_index (main.py:155-163)
RECURSIVE DfSort(_)
DfSort(rs) ==
    IF rs = <<>> THEN <<>>
    ELSE DfInsert(DfSort(SubSeq(rs, 1, Len(rs) - 1)), rs[Len(rs)])

\* How the claims speak of an enrollment: excluded when its user is named
\* "Test Student" in any letter case or its type is StudentViewEnrollment;
\* otherwise a student counted by state, or another role counted by its key.
TestStudentAnyCase == {"Test Student", "TEST STUDENT", "test student"}

ClaimExcluded(e) ==
    \/ e.has_user /\ e.user_name \in TestStudentAnyCase
    \/ e.type = "StudentViewEnrollment"

ClaimClasses == {"Activos", "Completados", "OtrosEstados"} \cup Range(RoleKeys)

ClaimClass(e) ==
    IF e.type = "StudentEnrollment"
    THEN CASE e.enrollment_state = "active" -> "Activos"
           [] e.enrollment_state = "completed" -> "Completados"
           [] OTHER -> "OtrosEstados"
    ELSE CASE e.role # NoneStr -> e.role
           [] e.type # NoneStr -> e.type
           [] OTHER -> "Otro"

\* ---- the three loops as a state machine ----
\* the course the loops run for
EnrCourse == <<"1", "2">>

EnrIdle ==
    /\ efn = "idle"
    /\ epc = "idle"
    /\ turn = 0
    /\ counts = NoCounts
    /\ buckets = NoBuckets
    /\ rows = <<>>
    /\ eret = <<>>
    /\ excluded_seen = 0
    /\ expected = [k \in {} |-> 0]

EnrInit ==
    /\ efn \in {"summarize_course", "get_detailed_student_info",
                "build_enrollments_detail_df"}
    /\ epc = "loop"
    /\ turn = 0
    /\ counts = NoCounts
    /\ buckets = NoBuckets
    /\ rows = <<>>
    /\ eret = <<>>
    /\ excluded_seen = 0
    /\ expected = [k \in ClaimClasses |-> 0]

\* bookkeeping of a turn: how the claims classify the enrollment just read
Observe(e) ==
    /\ turn' = turn + 1
    /\ excluded_seen' = IF ClaimExcluded(e) THEN excluded_seen + 1 ELSE excluded_seen
    /\ expected' = IF ClaimExcluded(e) THEN expected
                   ELSE [expected EXCEPT ![ClaimClass(e)] = @ + 1]

SummarizeLoop ==
    /\ efn = "summarize_course" /\ epc = "loop" /\ turn < MaxEnr
    /\ \E e \in Enrollment :
        /\ counts' = SummarizeTurn(counts, e)
        /\ Observe(e)
    /\ UNCHANGED <<efn, epc, buckets, rows, eret>>
    /\ UNCHANGED otherThanEnr

SummarizeReturn ==
    /\ efn = "summarize_course" /\ epc = "loop"
    /\ epc' = "done"
    /\ eret' = SummaryRow(EnrCourse, "Curso", "", counts)
    /\ UNCHANGED <<efn, turn, counts, buckets, rows, excluded_seen, expected>>
    /\ UNCHANGED otherThanEnr

DetailLoop ==
    /\ efn = "get_detailed_student_info" /\ epc = "loop" /\ turn < MaxEnr
    /\ \E e \in Enrollment :
        /\ buckets' = DetailTurn(buckets, e)
        /\ Observe(e)
    /\ UNCHANGED <<efn, epc, counts, rows, eret>>
    /\ UNCHANGED otherThanEnr

DetailReturn ==
    /\ efn = "get_detailed_student_info" /\ epc = "loop"
    /\ epc' = "done"
    /\ eret' = DetailRow(EnrCourse, "Curso", "", buckets)
    /\ UNCHANGED <<efn, turn, counts, buckets, rows, excluded_seen, expected>>
    /\ UNCHANGED otherThanEnr

DfLoop ==
    /\ efn = "build_enrollments_detail_df" /\ epc = "loop" /\ turn < MaxEnr
    /\ \E e \in Enrollment :
        /\ rows' = DfTurn(rows, EnrCourse, "Curso", "", e)
        /\ Observe(e)
    /\ UNCHANGED <<efn, epc, counts, buckets, eret>>
    /\ UNCHANGED otherThanEnr

DfReturn ==
    /\ efn = "build_enrollments_detail_df" /\ epc = "loop"
    /\ epc' = "done"
    /\ eret' = DfSort(rows)
    /\ UNCHANGED <<efn, turn, counts, buckets, rows, excluded_seen, expected>>
    /\ UNCHANGED otherThanEnr

(***************************************************************************)
(* One task of a batch: summarize_course (src/main.py:34-93) and           *)
(* get_detailed_student_info (src/main.py:196-263) as functions of the     *)
(* answers fetch_canvas_api gives to the task's three requests.  An answer *)
(* is NotFound (None), Raised (HTTPError) or the decoded body.             *)
(***************************************************************************)
CourseAnswers ==
    {Raised, NotFound,
     [kind |-> "dict", name |-> "Algebra", account_id |-> "7"],
     [kind |-> "dict", name |-> "Algebra", account_id |-> NoneStr]}

AccountAnswers == {Raised, NotFound, [kind |-> "dict", name |-> "Diplomado A"]}

AnaActive ==
    [type |-> "StudentEnrollment", enrollment_state |-> "active", role |-> NoneStr,
     has_user |-> TRUE, user_name |-> "Ana"]

EnrollmentAnswers == {Raised, NotFound, [kind |-> "list", elems |-> <<AnaActive>>]}

Answers == [course : CourseAnswers, account : AccountAnswers, enrollments : EnrollmentAnswers]

\* what a task's future holds: a result or an exception
Exc == [kind |-> "exc", row |-> <<>>]
Result(r) == [kind |-> "row", row |-> r]

\* the loop of summarize_course over a whole list (main.py:62-81)
RECURSIVE SummarizeAll(_, _)
SummarizeAll(c, enrollments) ==
    IF enrollments = <<>> THEN c
    ELSE SummarizeAll(SummarizeTurn(c, Head(enrollments)), Tail(enrollments))

\* the loop of get_detailed_student_info over a whole list (main.py:224-253)
RECURSIVE DetailAll(_, _)
DetailAll(b, enrollments) ==
    IF enrollments = <<>> THEN b
    ELSE DetailAll(DetailTurn(b, Head(enrollments)), Tail(enrollments))

\* get_enrollments(course_id) or []  (main.py:55, 217)
OrEmpty(answer) == IF answer.kind = "list" THEN answer.elems ELSE <<>>

\* account_name (main.py:48-53, 210-215): "" unless the account is found
AccountName(course, account) ==
    IF course.account_id # NoneStr /\ account.kind = "dict" THEN account.name ELSE ""

\* an HTTPError leaves the task: from the course request, from the account
\* request (made only when the course has an account_id), or from the
\* enrollments request
TaskRaises(cid, ans) ==
    \/ ans.course.kind = "raised"
    \/ /\ ans.course.kind = "dict"
       /\ \/ ans.course.account_id # NoneStr /\ ans.account.kind = "raised"
          \/ ans.enrollments.kind = "raised"
    \/ ~IntParses(cid)          \* int(course_id) raises ValueError

summarize_course(cid, ans) ==
    IF TaskRaises(cid, ans) THEN Exc
    ELSE IF ans.course.kind = "none" THEN Result(NotFoundRow(cid))
    ELSE Result(SummaryRow(cid, ans.course.name, AccountName(ans.course, ans.account),
                           SummarizeAll(NoCounts, OrEmpty(ans.enrollments))))

get_detailed_student_info(cid, ans) ==
    IF TaskRaises(cid, ans) THEN Exc
    ELSE IF ans.course.kind = "none" THEN Result(NotFoundDetail(cid))
    ELSE Result(DetailRow(cid, ans.course.name, AccountName(ans.course, ans.account),
                          DetailAll(NoBuckets, OrEmpty(ans.enrollments))))

TaskFn(fn, cid, ans) ==
    IF fn = "process_courses" THEN summarize_course(cid, ans)
    ELSE get_detailed_student_info(cid, ans)

\* rows.sort(key=lambda x: x["id"]): a stable sort by id (main.py:176, 190)
RECURSIVE InsertById(_, _)
InsertById(sorted, r) ==
    IF sorted = <<>> THEN <<r>>
    ELSE IF r.id < Head(sorted).id
    THEN <<r>> \o sorted
    ELSE <<Head(sorted)>> \o InsertById(Tail(sorted), r)

RECURSIVE SortByIdStable(_)
SortByIdStable(rs) ==
    IF rs = <<>> THEN <<>>
    ELSE InsertById(SortByIdStable(SubSeq(rs, 1, Len(rs) - 1)), rs[Len(rs)])

SortByIdForgotten(rs) == rs
SortById(rs) == SortByIdStable(rs)

(***************************************************************************)
(* process_courses (src/main.py:169-182) and process_detailed_courses      *)
(* (src/main.py:184-191) on a ThreadPoolExecutor.                          *)
(*                                                                         *)
(* All tasks are submitted on entry.  At most max_workers run at a time,   *)
(* taken from the queue in submission order.  The caller's as_completed    *)
(* loop takes finished futures in any order; fut.result() re-raises a      *)
(* task's exception, which leaves the with block, whose exit waits for the *)
(* remaining tasks before the exception reaches the caller.                *)
(***************************************************************************)
BatchCourseIds == {<<"1">>, <<"2">>, <<"1", "2">>, <<"sup2">>}

BatchFns == {"process_courses", "process_detailed_courses"}

Submitted == [status |-> "pending", lookup |-> "", fut |-> Exc]

BatchIdle ==
    /\ bfn = "idle"
    /\ batch_ids = <<>>
    /\ max_workers = 0
    /\ tasks = <<>>
    /\ taken = {}
    /\ brows = <<>>
    /\ bpc = "idle"
    /\ bret = <<>>

BatchInit ==
    /\ bfn \in BatchFns
    /\ batch_ids \in UNION {[1..n -> BatchCourseIds] : n \in 1..MaxIds}
    /\ max_workers \in 1..MaxWorkers
    /\ tasks = [i \in DOMAIN batch_ids |-> Submitted]
    /\ taken = {}
    /\ brows = <<>>
    /\ bpc = "collect"
    /\ bret = <<>>

\* the ways a task can end: its function applied to each possible answer
TaskEndings(fn, cid) ==
    {[status |-> "done", lookup |-> ans.course.kind, fut |-> TaskFn(fn, cid, ans)] :
        ans \in Answers}

Running == {i \in DOMAIN tasks : tasks[i].status = "running"}

PendingTasks == {i \in DOMAIN tasks : tasks[i].status = "pending"}

\* a free worker takes the oldest queued task
TaskStart(i) ==
    /\ bpc \in {"collect", "unwinding"}
    /\ i \in PendingTasks
    /\ \A j \in PendingTasks : i <= j
    /\ Cardinality(Running) < max_workers
    /\ tasks' = [tasks EXCEPT ![i].status = "running"]
    /\ UNCHANGED <<bfn, batch_ids, max_workers, taken, brows, bpc, bret>>
    /\ UNCHANGED otherThanBatch

\* a running task ends: its function applied to the answers it got
TaskFinish(i) ==
    /\ i \in Running
    /\ \E ended \in TaskEndings(bfn, batch_ids[i]) :
        tasks' = [tasks EXCEPT ![i] = ended]
    /\ UNCHANGED <<bfn, batch_ids, max_workers, taken, brows, bpc, bret>>
    /\ UNCHANGED otherThanBatch

\* one turn of `for fut in as_completed(futures)`: rows.append(fut.result())
Collect(i) ==
    /\ bpc = "collect"
    /\ i \in DOMAIN tasks
    /\ i \notin taken
    /\ tasks[i].status = "done"
    /\ taken' = taken \cup {i}
    /\ IF tasks[i].fut.kind = "exc"
       THEN /\ bpc' = "unwinding"
            /\ brows' = brows
       ELSE /\ bpc' = bpc
            /\ brows' = Append(brows, tasks[i].fut.row)
    /\ UNCHANGED <<bfn, batch_ids, max_workers, tasks, bret>>
    /\ UNCHANGED otherThanBatch

\* the with block has waited for every task; the exception reaches the caller
BatchRaise ==
    /\ bpc = "unwinding"
    /\ \A i \in DOMAIN tasks : tasks[i].status = "done"
    /\ bpc' = "raised"
    /\ UNCHANGED <<bfn, batch_ids, max_workers, tasks, taken, brows, bret>>
    /\ UNCHANGED otherThanBatch

\* every future was taken: sort and return (main.py:176-182, 190-191)
BatchReturn ==
    /\ bpc = "collect"
    /\ taken = DOMAIN tasks
    /\ bpc' = "returned"
    /\ bret' = SortById(brows)
    /\ UNCHANGED <<bfn, batch_ids, max_workers, tasks, taken, brows>>
    /\ UNCHANGED otherThanBatch

(***************************************************************************)
(* build_enrollments_detail_df (src/main.py:98-164): the loop over the     *)
(* course ids with its two caches.  The locals are one record:             *)
(*   rows, course_cache, account_cache as in the code;                     *)
(*   course_gets, account_gets: how often this call requested each course  *)
(*   and each account (an observation, not a local of the code);           *)
(*   raised: an exception left the call.                                   *)
(***************************************************************************)
ExportCourseIds == {<<"1">>, <<"sup2">>}

AccountIds == {"7", "8"}

ExportCourseAnswers ==
    {Raised, NotFound}
    \cup {[kind |-> "dict", name |-> "Algebra", account_id |-> a] :
            a \in AccountIds \cup {NoneStr}}

ExportAnswers ==
    [course : ExportCourseAnswers, account : AccountAnswers,
     enrollments : EnrollmentAnswers]

\* f"Curso {cid}"  (main.py:115)
DefaultCourseName(cid) ==
    IF cid = <<"1">> THEN "Curso 1" ELSE "Curso sup2"

\* f"Account {acc_id}"  (main.py:119)
DefaultAccountName(acc_id) == IF acc_id = "7" THEN "Account 7" ELSE "Account 8"

\* the locals at main.py:106-109
ExportLocals ==
    [rows |-> <<>>,
     course_cache |-> [c \in {} |-> 0],
     account_cache |-> [a \in {} |-> 0],
     course_gets |-> [c \in ExportCourseIds |-> 0],
     account_gets |-> [a \in AccountIds |-> 0],
     raised |-> FALSE]

\* cid not in course_cache  (main.py:113)
CourseNeverCached(st, cid) == TRUE
CourseMissing(st, cid) == cid \notin DOMAIN st.course_cache

\* acc_id and acc_id not in account_cache  (main.py:117)
AccountMissing(st, acc_id) ==
    acc_id # NoneStr /\ acc_id \notin DOMAIN st.account_cache

\* the cache entry made from get_course(cid) or {}  (main.py:114-115)
CourseEntry(cid, answer) ==
    IF answer.kind = "dict"
    THEN [name |-> answer.name, account_id |-> answer.account_id]
    ELSE [name |-> DefaultCourseName(cid), account_id |-> NoneStr]

\* the cache entry made from get_account(acc_id) or {}  (main.py:118-119)
AccountEntry(acc_id, answer) ==
    IF answer.kind = "dict" THEN answer.name ELSE DefaultAccountName(acc_id)

\* main.py:113-119: fill the caches for cid; an HTTPError ends the call
FillCaches(st, cid, ans) ==
    IF ~CourseMissing(st, cid) THEN st
    ELSE LET got == [st EXCEPT !.course_gets[cid] = @ + 1] IN
        IF ans.course.kind = "raised" THEN [got EXCEPT !.raised = TRUE]
        ELSE LET entry == CourseEntry(cid, ans.course)
                 withCourse == [got EXCEPT !.course_cache = (cid :> entry) @@ @]
                 acc_id == entry.account_id
             IN  IF ~AccountMissing(withCourse, acc_id) THEN withCourse
                 ELSE LET asked == [withCourse EXCEPT !.account_gets[acc_id] = @ + 1] IN
                     IF ans.account.kind = "raised" THEN [asked EXCEPT !.raised = TRUE]
                     ELSE [asked EXCEPT !.account_cache =
                                (acc_id :> AccountEntry(acc_id, ans.account)) @@ @]

\* account_cache.get(course_cache[cid]["account_id"], "")  (main.py:122)
DiplomadoName(st, cid) ==
    LET acc_id == st.course_cache[cid].account_id IN
    IF acc_id \in DOMAIN st.account_cache THEN st.account_cache[acc_id] ELSE ""

\* the inner loop over a course's enrollments (main.py:125-152)
RECURSIVE DfAll(_, _, _, _, _)
DfAll(rs, cid, curso_name, diplomado_name, enrollments) ==
    IF enrollments = <<>> THEN rs
    ELSE DfAll(DfTurn(rs, cid, curso_name, diplomado_name, Head(enrollments)),
               cid, curso_name, diplomado_name, Tail(enrollments))

\* int(cid) is evaluated for each row appended: it raises for a cid that does
\* not parse as soon as one enrollment of the course is kept
RowRaises(cid, enrollments) ==
    ~IntParses(cid) /\ \E k \in DOMAIN enrollments : ~DfExcluded(enrollments[k])

\* one turn of the loop over course_ids (main.py:111-152)
ExportTurn(st, cid, ans) ==
    LET cached == FillCaches(st, cid, ans) IN
    IF cached.raised THEN cached
    ELSE IF ans.enrollments.kind = "raised" THEN [cached EXCEPT !.raised = TRUE]
    ELSE IF RowRaises(cid, OrEmpty(ans.enrollments)) THEN [cached EXCEPT !.raised = TRUE]
    ELSE [cached EXCEPT !.rows =
            DfAll(@, cid, cached.course_cache[cid].name, DiplomadoName(cached, cid),
                  OrEmpty(ans.enrollments))]

ExportIdle ==
    /\ export_ids = <<>>
    /\ xi = 0
    /\ xlocals = ExportLocals
    /\ xpc = "idle"
    /\ xret = <<>>
    /\ call_no = 0

ExportInit ==
    /\ export_ids = <<>>
    /\ xi = 0
    /\ xlocals = ExportLocals
    /\ xpc = "ready"
    /\ xret = <<>>
    /\ call_no = 0

\* a call of build_enrollments_detail_df(course_ids): fresh locals
ExportCall ==
    /\ xpc \in {"ready", "returned", "raised"}
    /\ call_no < MaxCalls
    /\ call_no' = call_no + 1
    /\ export_ids' \in UNION {[1..n -> ExportCourseIds] : n \in 1..MaxExportIds}
    /\ xi' = 0
    /\ xlocals' = ExportLocals
    /\ xpc' = "loop"
    /\ xret' = <<>>
    /\ UNCHANGED otherThanExport

\* for cid in course_ids: one turn
ExportLoop ==
    /\ xpc = "loop"
    /\ xi < Len(export_ids)
    /\ xi' = xi + 1
    /\ xlocals' \in {ExportTurn(xlocals, export_ids[xi + 1], ans) : ans \in ExportAnswers}
    /\ xpc' = IF xlocals'.raised THEN "raised" ELSE "loop"
    /\ UNCHANGED <<export_ids, xret, call_no>>
    /\ UNCHANGED otherThanExport

\* main.py:154-164: the frame, sorted, is returned
ExportReturn ==
    /\ xpc = "loop"
    /\ xi = Len(export_ids)
    /\ xpc' = "returned"
    /\ xret' = DfSort(xlocals.rows)
    /\ UNCHANGED <<export_ids, xi, xlocals, call_no>>
    /\ UNCHANGED otherThanExport

(***************************************************************************)
(* The Streamlit script (src/main.py:268-381).  Every interaction reruns   *)
(* the script from the top; st.session_state is what survives.  One action *)
(* is one run of the script.  A batch call inside a run is the function    *)
(* below of the tasks' endings and their completion order; that a batch    *)
(* raises exactly when one of its tasks raised is BatchFailurePropagates   *)
(* of SpecBatch.                                                           *)
(***************************************************************************)
\* what the user may have typed in the text area
UiTexts == {<<>>, <<"a">>, <<"1">>, <<"2", ",", "1">>}

\* answers of the server during a run of the script
UiAnswers ==
    [course : {Raised, NotFound, [kind |-> "dict", name |-> "Algebra", account_id |-> "7"]},
     account : {[kind |-> "dict", name |-> "Diplomado A"]},
     enrollments : {[kind |-> "list", elems |-> <<AnaActive>>]}]

\* the ways a task of a batch can end during a run of the script
UiEndings(fn, cid) == {TaskFn(fn, cid, a) : a \in UiAnswers}

\* the futures a batch over ids can end with, one per submitted id
RECURSIVE UiFutures(_, _)
UiFutures(fn, ids) ==
    IF ids = <<>> THEN {<<>>}
    ELSE {<<h>> \o t : h \in UiEndings(fn, Head(ids)), t \in UiFutures(fn, Tail(ids))}

\* the orders in which n tasks can complete
Orders(n) == {p \in [1..n -> 1..n] : \A j, k \in 1..n : p[j] = p[k] => j = k}

BatchRaised == [kind |-> "raised", rows |-> <<>>]

\* process_courses / process_detailed_courses (main.py:169-191) as a function
process_batch(futs, order) ==
    IF \E i \in DOMAIN futs : futs[i].kind = "exc" THEN BatchRaised
    ELSE [kind |-> "ok", rows |-> SortById([k \in DOMAIN futs |-> futs[order[k]].row])]

\* build_enrollments_detail_df (main.py:98-164) as a function of the answers
RECURSIVE ExportAll(_, _, _)
ExportAll(st, ids, answers) ==
    IF ids = <<>> \/ st.raised THEN st
    ELSE ExportAll(ExportTurn(st, Head(ids), Head(answers)), Tail(ids), Tail(answers))

\* a key of st.session_state: absent, or a value with the run that stored it
\* (the run number is an observation, not part of the stored value)
Absent == [set |-> FALSE, run |-> 0, value |-> <<>>]
Stored(n, v) == [set |-> TRUE, run |-> n, value |-> v]

NoExport == [kind |-> "none", ids_run |-> 0, resumen_run |-> 0, resumen |-> <<>>, matriculas |-> <<>>]

Blank == [view |-> "blank", run |-> 0, shown |-> <<>>]

UiIdle ==
    /\ session = [detailed_results |-> Absent, df_resumen |-> Absent, course_ids |-> Absent]
    /\ show_details = FALSE
    /\ screen = [Blank EXCEPT !.view = "closed"]
    /\ exported = NoExport
    /\ run_no = 0
    /\ last_run = [no |-> 0, failed |-> FALSE]

UiInit ==
    /\ session = [detailed_results |-> Absent, df_resumen |-> Absent, course_ids |-> Absent]
    /\ show_details = FALSE
    /\ screen = Blank
    /\ exported = NoExport
    /\ run_no = 0
    /\ last_run = [no |-> 0, failed |-> FALSE]

\* main.py:305-342: what the script shows after the run block
Render(sess, details) ==
    IF sess.df_resumen.set /\ sess.course_ids.value # <<>>
    THEN IF details
         THEN [view |-> "detail", run |-> sess.detailed_results.run,
               shown |-> sess.detailed_results.value]
         ELSE [view |-> "summary", run |-> sess.df_resumen.run,
               shown |-> sess.df_resumen.value]
    ELSE Blank

ErrorScreen == [view |-> "error", run |-> 0, shown |-> <<>>]

WarningScreen == [view |-> "warning", run |-> 0, shown |-> <<>>]

\* "Buscar" with no valid id in the text (main.py:284-288)
ClickBuscarInvalid ==
    /\ \E text \in UiTexts : parse_course_ids(text) = <<>>
    /\ screen' = WarningScreen
    /\ UNCHANGED <<session, show_details, exported, run_no, last_run>>
    /\ UNCHANGED otherThanUi

\* "Buscar" with the checkbox off (main.py:284-302, else branch), then the
\* rendering of the same script run
ClickBuscarSummary ==
    /\ ~show_details
    /\ run_no < MaxRuns
    /\ run_no' = run_no + 1
    /\ \E text \in UiTexts :
        LET course_ids == parse_course_ids(text) IN
        /\ course_ids # <<>>
        /\ \E futs \in UiFutures("process_courses", course_ids),
              order \in Orders(Len(course_ids)) :
            LET df == process_batch(futs, order) IN
            IF df.kind = "raised"
            THEN /\ session' = session
                 /\ screen' = ErrorScreen
                 /\ last_run' = [no |-> run_no', failed |-> TRUE]
            ELSE /\ session' = [session EXCEPT
                                    !.df_resumen = Stored(run_no', df.rows),
                                    !.course_ids = Stored(run_no', course_ids)]
                 /\ screen' = Render(session', show_details)
                 /\ last_run' = [no |-> run_no', failed |-> FALSE]
    /\ UNCHANGED <<show_details, exported>>
    /\ UNCHANGED otherThanUi

\* "Buscar" with the checkbox on (main.py:284-302, if branch): the detailed
\* batch, its result stored, then the summary batch, then course_ids
ClickBuscarDetails ==
    /\ show_details
    /\ run_no < MaxRuns
    /\ run_no' = run_no + 1
    /\ \E text \in UiTexts :
        LET course_ids == parse_course_ids(text) IN
        /\ course_ids # <<>>
        /\ \E dfuts \in UiFutures("process_detailed_courses", course_ids),
              dorder \in Orders(Len(course_ids)) :
            LET detailed_results == process_batch(dfuts, dorder) IN
            IF detailed_results.kind = "raised"
            THEN /\ session' = session
                 /\ screen' = ErrorScreen
                 /\ last_run' = [no |-> run_no', failed |-> TRUE]
            ELSE LET stored == [session EXCEPT
                        !.detailed_results = Stored(run_no', detailed_results.rows)]
                 IN \E futs \in UiFutures("process_courses", course_ids),
                       order \in Orders(Len(course_ids)) :
                    LET df == process_batch(futs, order) IN
                    IF df.kind = "raised"
                    THEN /\ session' = stored
                         /\ screen' = ErrorScreen
                         /\ last_run' = [no |-> run_no', failed |-> TRUE]
                    ELSE /\ session' = [stored EXCEPT
                                            !.df_resumen = Stored(run_no', df.rows),
                                            !.course_ids = Stored(run_no', course_ids)]
                         /\ screen' = Render(session', show_details)
                         /\ last_run' = [no |-> run_no', failed |-> FALSE]
    /\ UNCHANGED <<show_details, exported>>
    /\ UNCHANGED otherThanUi

\* the checkbox is toggled: the script reruns without the button (main.py:280, 305-342)
ToggleDetails ==
    /\ show_details' = ~show_details
    /\ screen' = Render(session, show_details')
    /\ UNCHANGED <<session, exported, run_no, last_run>>
    /\ UNCHANGED otherThanUi

\* any other interaction (the text is edited): the script reruns and renders
Rerun ==
    /\ screen' = Render(session, show_details)
    /\ UNCHANGED <<session, show_details, exported, run_no, last_run>>
    /\ UNCHANGED otherThanUi

\* "Generar Reporte" (main.py:350-378); the button exists when results are shown
ClickGenerarReporte ==
    /\ session.df_resumen.set
    /\ session.course_ids.value # <<>>
    /\ screen' = Render(session, show_details)
    /\ LET course_ids == session.course_ids.value IN
        \E answers \in [DOMAIN course_ids -> UiAnswers] :
            LET st == ExportAll(ExportLocals, course_ids, answers) IN
            exported' =
                IF st.raised
                THEN [NoExport EXCEPT !.kind = "raised"]
                ELSE [kind |-> "ok", ids_run |-> session.course_ids.run,
                      resumen_run |-> session.df_resumen.run,
                      resumen |-> session.df_resumen.value,
                      matriculas |-> DfSort(st.rows)]
    /\ UNCHANGED <<session, show_details, run_no, last_run>>
    /\ UNCHANGED otherThanUi

(***************************************************************************)
(* Specifications.                                                         *)
(***************************************************************************)
InitFetch == FetchInit /\ ParseIdle /\ EnrIdle /\ BatchIdle /\ ExportIdle /\ UiIdle

NextFetch == FetchFirst \/ FetchNext \/ FetchReturn

SpecFetch == InitFetch /\ [][NextFetch]_vars

InitParse == ParseInit /\ FetchIdle /\ EnrIdle /\ BatchIdle /\ ExportIdle /\ UiIdle

NextParse == ParseCourseIds

SpecParse == InitParse /\ [][NextParse]_vars

InitEnr == EnrInit /\ FetchIdle /\ ParseIdle /\ BatchIdle /\ ExportIdle /\ UiIdle

NextEnr ==
    \/ SummarizeLoop \/ SummarizeReturn
    \/ DetailLoop \/ DetailReturn
    \/ DfLoop \/ DfReturn

SpecEnr == InitEnr /\ [][NextEnr]_vars

InitBatch == BatchInit /\ FetchIdle /\ ParseIdle /\ EnrIdle /\ ExportIdle /\ UiIdle

NextBatch ==
    \/ \E i \in DOMAIN tasks : TaskStart(i)
    \/ \E i \in DOMAIN tasks : TaskFinish(i)
    \/ \E i \in DOMAIN tasks : Collect(i)
    \/ BatchRaise
    \/ BatchReturn

SpecBatch == InitBatch /\ [][NextBatch]_vars

InitExport == ExportInit /\ FetchIdle /\ ParseIdle /\ EnrIdle /\ BatchIdle /\ UiIdle

NextExport == ExportCall \/ ExportLoop \/ ExportReturn

SpecExport == InitExport /\ [][NextExport]_vars

InitUi == UiInit /\ FetchIdle /\ ParseIdle /\ EnrIdle /\ BatchIdle /\ ExportIdle

NextUi ==
    \/ ClickBuscarInvalid
    \/ ClickBuscarSummary
    \/ ClickBuscarDetails
    \/ ToggleDetails
    \/ Rerun
    \/ ClickGenerarReporte

SpecUi == InitUi /\ [][NextUi]_vars

(***************************************************************************)
(* Claims about fetch_canvas_api.                                          *)
(***************************************************************************)
\* the responses the call has received so far
Received == 1..response

FetchEnded == fpc \in {"done", "raised"}

\* C2: whenever a response received during one call has status 404 (the first
\* request or a followed next-page request), the call returns the "not found"
\* marker and does not raise; the marker is not an empty list.
C2_NotFoundNeverRaises ==
    (FetchEnded /\ \E k \in Received : pages[k].status = 404)
        => (ret = NotFound /\ ret # [kind |-> "list", elems |-> <<>>])

\* the concatenation of every page's array, first page first
RECURSIVE ConcatPages(_)
ConcatPages(ps) ==
    IF ps = <<>> THEN <<>> ELSE Head(ps).body.elems \o ConcatPages(Tail(ps))

AllPagesAreArrays ==
    \A k \in DOMAIN pages : pages[k].status = 200 /\ pages[k].body.kind = "list"

\* C3: when every page of the chain is a successful JSON array, the call
\* never raises, can always take its next step until it has returned, has
\* then requested every page once, and returns the concatenation of the
\* pages' arrays in page order.
C3_Pagination ==
    AllPagesAreArrays =>
        /\ fpc # "raised"
        /\ response <= Len(pages)
        /\ fpc = "loop" => results = ConcatPages(SubSeq(pages, 1, response))
        /\ fpc \in {"first", "loop"} => ENABLED NextFetch
        /\ fpc = "done" =>
            /\ response = Len(pages)
            /\ ret = [kind |-> "list", elems |-> ConcatPages(pages)]

\* three pages of two items each give six items in page order
C3_Witness ==
    /\ fpc = "done"
    /\ AllPagesAreArrays
    /\ Len(pages) = 3
    /\ \A k \in DOMAIN pages : Len(pages[k].body.elems) = 2
    /\ pages[1].body.elems # pages[2].body.elems
    /\ Len(ret.elems) = 6

(***************************************************************************)
(* Claim about parse_course_ids.                                           *)
(***************************************************************************)
\* the maximal runs of characters that are neither comma nor whitespace
RECURSIVE ClaimTokens(_, _)
ClaimTokens(s, cur) ==
    IF s = <<>> THEN (IF cur = <<>> THEN <<>> ELSE <<cur>>)
    ELSE IF Head(s) = "," \/ Head(s) = " "
    THEN (IF cur = <<>> THEN <<>> ELSE <<cur>>) \o ClaimTokens(Tail(s), <<>>)
    ELSE ClaimTokens(Tail(s), Append(cur, Head(s)))

\* ^[0-9]+$
MatchesNumeric(tok) == tok # <<>> /\ \A k \in DOMAIN tok : tok[k] \in {"1", "2"}

RECURSIVE KeepNumeric(_)
KeepNumeric(toks) ==
    IF toks = <<>> THEN <<>>
    ELSE (IF MatchesNumeric(Head(toks)) THEN <<Head(toks)>> ELSE <<>>)
            \o KeepNumeric(Tail(toks))

\* C7: parse_course_ids returns exactly the delimited tokens that match
\* ^[0-9]+$, duplicates kept, and every returned token has an integer parse.
C7_OnlyNumericTokens ==
    ppc = "parsed" =>
        /\ parsed_ids = KeepNumeric(ClaimTokens(raw_text, <<>>))
        /\ \A k \in DOMAIN parsed_ids : IntParses(parsed_ids[k])

(***************************************************************************)
(* Claims about the per-enrollment loops.                                  *)
(***************************************************************************)
CountTotal(c) ==
    c.active_students + c.completed_students + c.other_states_students
        + SumSeq([k \in DOMAIN RoleKeys |-> c.other_roles_counter[RoleKeys[k]]])

BucketEntries(b) ==
    Range(b.active_students) \cup Range(b.completed_students)
        \cup Range(b.other_states_students) \cup Range(b.other_roles)

\* C5: an enrollment whose user is named "Test Student" in any letter case, or
\* whose type is StudentViewEnrollment, is in no counter of summarize_course,
\* in no bucket of get_detailed_student_info and in no row of
\* build_enrollments_detail_df, whatever its type and state.
C5_TestStudentExcluded ==
    /\ CountTotal(counts) <= turn - excluded_seen
    /\ \A i \in BucketEntries(buckets) : ~ClaimExcluded(i.src)
    /\ \A k \in DOMAIN rows : ~ClaimExcluded(rows[k].src)
    /\ (efn = "build_enrollments_detail_df" /\ epc = "done") =>
            \A k \in DOMAIN eret : ~ClaimExcluded(eret[k].src)

\* a teacher named "TEST STUDENT" was read by the detail loop and skipped
C5_Witness ==
    /\ efn = "get_detailed_student_info"
    /\ epc = "done"
    /\ turn = 2
    /\ excluded_seen = 1
    /\ Cardinality(BucketEntries(buckets)) = 1

\* C8: summarize_course counts every non-excluded enrollment exactly once, in
\* the counter of its class: Activos, Completados or Otros Estados for a
\* StudentEnrollment by state, else the role counter keyed by role, else type,
\* else "Otro"; so the counters add up to the number of non-excluded enrollments.
C8_CountedOnce ==
    efn = "summarize_course" =>
        /\ counts.active_students = expected["Activos"]
        /\ counts.completed_students = expected["Completados"]
        /\ counts.other_states_students = expected["OtrosEstados"]
        /\ \A k \in Range(RoleKeys) : counts.other_roles_counter[k] = expected[k]
        /\ CountTotal(counts) = turn - excluded_seen
        /\ epc = "done" =>
            /\ eret.Activos + eret.Completados + eret.OtrosEstados
                + SumSeq([k \in DOMAIN eret.OtrosRoles |-> eret.OtrosRoles[k].v])
                    = turn - excluded_seen
            /\ eret.Activos = expected["Activos"]
            /\ eret.Completados = expected["Completados"]
            /\ eret.OtrosEstados = expected["OtrosEstados"]

\* one completed student and one role-less, type-less enrollment were counted
C8_Witness ==
    /\ efn = "summarize_course"
    /\ epc = "done"
    /\ turn = 2
    /\ excluded_seen = 0
    /\ eret.Completados = 1
    /\ eret.OtrosRoles = <<[k |-> "Otro", v |-> 1]>>

(***************************************************************************)
(* Claims about the batch runner.                                          *)
(***************************************************************************)
RowIds(rs) == [k \in DOMAIN rs |-> rs[k].id]

IsNonDecreasing(s) == \A j, k \in DOMAIN s : j < k => s[j] <= s[k]

Occurrences(s, x) == Cardinality({k \in DOMAIN s : s[k] = x})

\* C1: a batch run that returns, returns its results in ascending order of
\* the numeric course id, one per submitted id, whatever the order in which
\* the tasks completed and whatever max_workers is.
C1_SortedById ==
    bpc = "returned" =>
        /\ IsNonDecreasing(RowIds(bret))
        /\ Len(bret) = Len(batch_ids)
        /\ \A i \in DOMAIN batch_ids :
            Occurrences(RowIds(bret), IntOf(batch_ids[i]))
                = Cardinality({j \in DOMAIN batch_ids :
                                IntOf(batch_ids[j]) = IntOf(batch_ids[i])})

\* two workers, and the task of the larger id completed first
C1_Witness ==
    /\ bpc = "returned"
    /\ max_workers = 2
    /\ Len(brows) >= 2
    /\ brows[1].id > brows[2].id
    /\ bret[1].id < bret[2].id

\* a batch in which a task failed never returns a list: the exception reaches
\* the caller once every task has ended (the batch-runner half of C4)
BatchFailurePropagates ==
    /\ (\E i \in DOMAIN tasks : tasks[i].status = "done" /\ tasks[i].fut.kind = "exc")
            => bpc # "returned"
    /\ bpc = "raised" =>
            /\ bret = <<>>
            /\ \A i \in DOMAIN tasks : tasks[i].status = "done"
    /\ bpc = "returned" => \A i \in DOMAIN tasks : tasks[i].fut.kind = "row"

\* the row the claim gives for a course that is not found
SentinelRow(cid) ==
    [id |-> IntOf(cid), Curso |-> "NO ENCONTRADO", Diplomado |-> "",
     Activos |-> 0, Completados |-> 0, OtrosEstados |-> 0, OtrosRoles |-> <<>>]

\* C6: in a successful run of process_courses every submitted course id whose
\* course lookup answered "not found" has its own row, with the integer id,
\* Curso "NO ENCONTRADO", empty Diplomado, zero counters and empty Otros
\* Roles; the result has exactly one row per submitted id.
C6_NotFoundRowPresent ==
    (bpc = "returned" /\ bfn = "process_courses") =>
        /\ Len(bret) = Len(batch_ids)
        /\ \A i \in DOMAIN batch_ids :
            Occurrences(bret, SentinelRow(batch_ids[i]))
                = Cardinality({j \in DOMAIN batch_ids :
                                /\ batch_ids[j] = batch_ids[i]
                                /\ tasks[j].lookup = "none"})

\* a run with one course found and one not found
C6_Witness ==
    /\ bpc = "returned"
    /\ bfn = "process_courses"
    /\ \E i, j \in DOMAIN tasks : tasks[i].lookup = "none" /\ tasks[j].lookup = "dict"
    /\ \E k \in DOMAIN bret : bret[k].Curso = "NO ENCONTRADO"

(***************************************************************************)
(* Claim about the caches of build_enrollments_detail_df.                  *)
(***************************************************************************)
\* C9: within one call the course endpoint is requested at most once per
\* distinct course id and the account endpoint at most once per distinct
\* account id; each call starts with empty caches, so a call that returns
\* has requested every one of its course ids exactly once, and exactly once
\* every account its cached courses name.
C9_FetchedOncePerCall ==
    /\ \A c \in ExportCourseIds : xlocals.course_gets[c] <= 1
    /\ \A a \in AccountIds : xlocals.account_gets[a] <= 1
    /\ xpc = "returned" =>
        /\ \A k \in DOMAIN export_ids : xlocals.course_gets[export_ids[k]] = 1
        /\ \A c \in DOMAIN xlocals.course_cache :
            xlocals.course_cache[c].account_id # NoneStr =>
                xlocals.account_gets[xlocals.course_cache[c].account_id] = 1

\* the second call, with a repeated course id and two different courses of
\* account 7: three turns, two course requests, one account request, and rows
\* from both turns of the repeated course
C9_Witness ==
    /\ xpc = "returned"
    /\ call_no = 2
    /\ export_ids = <<<<"1">>, <<"sup2">>, <<"1">>>>
    /\ \A c \in ExportCourseIds :
        /\ c \in DOMAIN xlocals.course_cache
        /\ xlocals.course_cache[c].account_id = "7"
    /\ xlocals.account_gets["7"] = 1
    /\ xlocals.account_gets["8"] = 0
    /\ Len(xlocals.rows) >= 2

(***************************************************************************)
(* Claims about the run handler and the session state.                     *)
(***************************************************************************)
SessionKeys == {"detailed_results", "df_resumen", "course_ids"}

\* C4: when a task of a batch run fails with an HTTP error the batch raises
\* instead of returning a list, the run ends with the error shown, and the
\* session state holds no result stored by that run.
C4_FailedRunStoresNothing ==
    last_run.failed =>
        /\ screen.view # "summary" /\ screen.view # "detail"
        /\ \A k \in SessionKeys : ~(session[k].set /\ session[k].run = last_run.no)

\* C10: once results are stored, detailed_results, df_resumen and course_ids
\* come from one and the same run; the detail view shows only detail results
\* of the run that stored course_ids, and the export uses a summary and a
\* course id list of one run.
C10_OneRun ==
    /\ (session.course_ids.set /\ session.detailed_results.set) =>
            session.detailed_results.run = session.course_ids.run
    /\ (session.course_ids.set \/ session.df_resumen.set) =>
            session.df_resumen.run = session.course_ids.run
    /\ (screen.view = "detail" /\ screen.run # 0) => screen.run = session.course_ids.run
    /\ exported.kind = "ok" => exported.resumen_run = exported.ids_run

=============================================================================
